---- MODULE Spec2Model ----
(***************************************************************************)
(* Model of trace_extractor: the input sanitiser, the ffprobe extractor,   *)
(* the trace transformer and the threaded dispatcher (EntryPoint).         *)
(*                                                                         *)
(* Strings are sequences of one-character strings, so that basename,       *)
(* splitext, lower and endswith are computed as the library computes them. *)
(***************************************************************************)
EXTENDS Integers, Sequences, FiniteSets, TLC

\* ------------------------------------------------------------------------
\* Bounds
\* ------------------------------------------------------------------------
\* longest list of paths handed to a stand-alone InputFilesSanitiser
MaxLen == 3
\* number of run() calls made on one InputFilesSanitiser instance
MaxCalls == 2
\* longest list of positional arguments of one dispatch
MaxArgs == 1
MaxFrames == 2

\* ------------------------------------------------------------------------
\* Characters and strings
\* ------------------------------------------------------------------------
UpperChars == <<"A","B","C","D","E","F","G","H","I","J","K","L","M",
                "N","O","P","Q","R","S","T","U","V","W","X","Y","Z">>
LowerChars == <<"a","b","c","d","e","f","g","h","i","j","k","l","m",
                "n","o","p","q","r","s","t","u","v","w","x","y","z">>

\* str.lower() on one character
LowerChar(c) ==
  IF \E i \in 1..Len(UpperChars) : UpperChars[i] = c
  THEN LowerChars[CHOOSE i \in 1..Len(UpperChars) : UpperChars[i] = c]
  ELSE c

\* str.lower()
Lower(s) == [i \in 1..Len(s) |-> LowerChar(s[i])]

\* str.endswith(suffix)
EndsWith(s, suffix) ==
  /\ Len(s) >= Len(suffix)
  /\ SubSeq(s, Len(s) - Len(suffix) + 1, Len(s)) = suffix

\* str.rfind(c), 1-based; 0 when c does not occur
RFind(s, c) ==
  IF \E i \in 1..Len(s) : s[i] = c
  THEN CHOOSE i \in 1..Len(s) : s[i] = c /\ \A j \in (i+1)..Len(s) : s[j] # c
  ELSE 0

\* os.path.basename (posixpath): what follows the last '/'
Basename(p) == SubSeq(p, RFind(p, "/") + 1, Len(p))

\* os.path.splitext(...)[0] (genericpath._splitext): cut at the last dot,
\* unless that dot belongs to the run of leading dots of the last component
SplitextRoot(p) ==
  LET sepIndex == RFind(p, "/")
      dotIndex == RFind(p, ".")
  IN  IF /\ dotIndex > sepIndex
         /\ \E k \in (sepIndex+1)..(dotIndex-1) : p[k] # "."
      THEN SubSeq(p, 1, dotIndex - 1)
      ELSE p

Mp4Ext == <<".","m","p","4">>

\* ------------------------------------------------------------------------
\* The paths of the model and the filesystem states
\* ------------------------------------------------------------------------
PathAC  == <<"a","/","c",".","m","p","4">>
PathBC  == <<"b","/","c",".","m","p","4">>
PathACU == <<"a","/","c",".","M","P","4">>
PathBY  == <<"b","/","y",".","m","p","4">>
PathAX  == <<"a","/","x",".","t","x","t">>
PathDM  == <<"d",".","m","p","4">>

\* _DEFAULT_INPUT_DIR and the names os.listdir finds in it
InputDir      == <<"i","n","p","u","t">>
GitignoreName == <<".","g","i","t","i","g","n","o","r","e">>
ScannedName   == <<"c",".","M","P","4">>

\* os.path.join(directory, name) for a relative name
PathJoin(directory, name) == directory \o <<"/">> \o name

PathICU == PathJoin(InputDir, ScannedName)

Paths == {PathAC, PathBC, PathACU, PathBY, PathAX, PathDM, PathICU}

\* an entry is absent, a directory, a regular file or a symbolic link
Absent  == [kind |-> "absent", target |-> <<>>]
Dir     == [kind |-> "dir",    target |-> <<>>]
File    == [kind |-> "file",   target |-> <<>>]
Link(t) == [kind |-> "link",   target |-> t]

\* the filesystem states the inputs are drawn from
FsStates ==
  { [p \in Paths |->
       CASE p = PathAC  -> ac
         [] p = PathBC  -> bc
         [] p = PathACU -> acu
         [] p = PathBY  -> by
         [] p = PathAX  -> File
         [] p = PathDM  -> dm
         [] p = PathICU -> icu] :
    ac \in {File, Absent}, bc \in {File, Absent}, acu \in {File},
    by \in {File, Absent, Link(PathAC), Link(PathAX)},
    dm \in {Dir, File}, icu \in {File, Absent} }

\* the entry a path leads to once a symbolic link is followed
Resolve(f, p) == IF f[p].kind = "link" THEN f[p].target ELSE p

\* os.path.exists: follows symbolic links, False for a dangling link
PathExists(f, p) == f[Resolve(f, p)].kind \in {"file", "dir"}

\* os.path.isfile: follows symbolic links
PathIsFile(f, p) == f[Resolve(f, p)].kind = "file"

\* os.path.realpath: the canonical path, symbolic links resolved
Realpath(f, p) == Resolve(f, p)

\* all sequences over S of length at most n
SeqsUpTo(S, n) == UNION { [1..k -> S] : k \in 0..n }

\* ------------------------------------------------------------------------
\* InputFilesSanitiser
\* ------------------------------------------------------------------------
\* _check_paths_existence: every input path that exists is appended, in
\* order, to _existing_paths
CheckPathsExistence(existing, inputs, f) ==
  existing \o SelectSeq(inputs, LAMBDA p : PathExists(f, p))

\* a variant that lets every existing path through
CheckPathsAreFilesNoTest(filenames, existing, f) ==
  filenames \o existing

\* _check_paths_are_files: every existing path that is a regular file is
\* appended, in order, to _existing_filenames
CheckPathsAreFiles(filenames, existing, f) ==
  filenames \o SelectSeq(existing, LAMBDA p : PathIsFile(f, p))

\* a variant that consults the dictionary of base names only
DedupeRejectsBasenameOnly(basenames, realpaths, f, filename) ==
  Basename(filename) \in basenames

\* the test of one file name against the two dictionaries of claimants
DedupeRejects(basenames, realpaths, f, filename) ==
  \/ Basename(filename) \in basenames
  \/ Realpath(f, filename) \in realpaths

\* _dedupe_filenames: chosen_basenames and chosen_realpaths start empty on
\* every call; accepted names are appended to _deduped_filenames
RECURSIVE DedupeLoop(_, _, _, _, _)
DedupeLoop(acc, xs, basenames, realpaths, f) ==
  IF xs = <<>> THEN acc
  ELSE LET filename == Head(xs) IN
       IF DedupeRejects(basenames, realpaths, f, filename)
       THEN DedupeLoop(acc, Tail(xs), basenames, realpaths, f)
       ELSE DedupeLoop(Append(acc, filename), Tail(xs),
                       basenames \cup {Basename(filename)},
                       realpaths \cup {Realpath(f, filename)}, f)

DedupeFilenames(deduped, filenames, f) ==
  DedupeLoop(deduped, filenames, {}, {}, f)

\* the extension test of _filter_filenames
HasMp4Extension(filename) == EndsWith(Lower(filename), Mp4Ext)

\* _filter_filenames: every deduplicated name with the extension is
\* appended, in order, to _filtered_filenames
FilterFilenames(filtered, deduped) ==
  filtered \o SelectSeq(deduped, HasMp4Extension)

\* the fields of a freshly constructed InputFilesSanitiser
NewSanitiser(inputs) ==
  [input_paths        |-> inputs,
   existing_paths     |-> <<>>,
   existing_filenames |-> <<>>,
   deduped_filenames  |-> <<>>,
   filtered_filenames |-> <<>>]

\* a variant of run() that tests the extension before it deduplicates
SanitiserRunFilterFirst(s, f) ==
  LET e  == CheckPathsExistence(s.existing_paths, s.input_paths, f)
      fn == CheckPathsAreFiles(s.existing_filenames, e, f)
      d  == DedupeFilenames(s.deduped_filenames,
                            SelectSeq(fn, HasMp4Extension), f)
      ff == FilterFilenames(s.filtered_filenames, d)
  IN  [input_paths        |-> s.input_paths,
       existing_paths     |-> e,
       existing_filenames |-> fn,
       deduped_filenames  |-> d,
       filtered_filenames |-> ff]

\* InputFilesSanitiser.run: the four stages, each reading the field the
\* previous one has extended
SanitiserRun(s, f) ==
  LET e  == CheckPathsExistence(s.existing_paths, s.input_paths, f)
      fn == CheckPathsAreFiles(s.existing_filenames, e, f)
      d  == DedupeFilenames(s.deduped_filenames, fn, f)
      ff == FilterFilenames(s.filtered_filenames, d)
  IN  [input_paths        |-> s.input_paths,
       existing_paths     |-> e,
       existing_filenames |-> fn,
       deduped_filenames  |-> d,
       filtered_filenames |-> ff]

\* ------------------------------------------------------------------------
\* ReturnValue
\* ------------------------------------------------------------------------
SUCCESS           == 0
NO_VALID_FILE     == 1
FFPROBE_NOT_FOUND == 2
FFPROBE_ERROR     == 4
TRANSFORM_ERROR   == 8

\* x | bit, for a single bit
BitOr(x, bit) == IF (x \div bit) % 2 = 1 THEN x ELSE x + bit

\* ------------------------------------------------------------------------
\* DataExtractor
\* ------------------------------------------------------------------------
\* ffprobe's JSON documents: dictionaries are functions of their keys, the
\* values of a frame are the strings that formatting them yields
Frame(n, t, pts, size) ==
  [coded_picture_number |-> n, pict_type |-> t, pts_time |-> pts,
   pkt_size |-> size]

GoodFrame    == Frame(<<"0">>, <<"I">>, <<"1",".","9","9","9","9">>, <<"7">>)
BadPtsFrame  == Frame(<<"0">>, <<"I">>, <<"N","/","A">>, <<"7">>)
NoSizeFrame  == [coded_picture_number |-> <<"0">>, pict_type |-> <<"I">>,
                 pts_time |-> <<"0",".","5">>]

EmptyDoc       == << >>
NoFramesDoc    == [streams |-> << >>]
EmptyFramesDoc == [frames |-> << >>]
GoodDoc        == [frames |-> <<GoodFrame>>]
BadPtsDoc      == [frames |-> <<BadPtsFrame>>]
NoSizeDoc      == [frames |-> <<NoSizeFrame>>]

ProbeDocs ==
  {EmptyDoc, NoFramesDoc, EmptyFramesDoc, GoodDoc, BadPtsDoc, NoSizeDoc}

\* the bytes ffprobe writes: valid UTF-8 or not, a JSON text or not, and the
\* document the text denotes
Stdout(utf8, wellformed, doc) ==
  [utf8 |-> utf8, wellformed |-> wellformed, doc |-> doc]
EmptyBytes == Stdout(TRUE, FALSE, EmptyDoc)

\* what one launch of the subprocess does
ProbeOutcomes ==
  {[kind |-> "launch_error", stdout |-> EmptyBytes],
   [kind |-> "exit_nonzero", stdout |-> EmptyBytes],
   [kind |-> "exit_zero", stdout |-> Stdout(FALSE, FALSE, EmptyDoc)],
   [kind |-> "exit_zero", stdout |-> EmptyBytes]}
  \cup {[kind |-> "exit_zero", stdout |-> Stdout(TRUE, TRUE, d)] :
          d \in ProbeDocs}

\* _call_ffprobe: CalledProcessError (non-zero exit under check=True) is the
\* only exception caught; the OSError of a failed launch propagates
CallFfprobe(outcome) ==
  CASE outcome.kind = "exit_nonzero" -> [exc |-> "none", result |-> EmptyBytes]
    [] outcome.kind = "launch_error" -> [exc |-> "OSError", result |-> EmptyBytes]
    [] OTHER -> [exc |-> "none", result |-> outcome.stdout]

\* _try_load_json_data: json.loads decodes the bytes (UnicodeDecodeError when
\* they are not UTF-8) and parses them; only JSONDecodeError is caught
TryLoadJsonData(stdout) ==
  IF ~stdout.utf8 THEN [exc |-> "UnicodeDecodeError", json |-> EmptyDoc]
  ELSE IF ~stdout.wellformed THEN [exc |-> "none", json |-> EmptyDoc]
  ELSE [exc |-> "none", json |-> stdout.doc]

\* DataExtractor.run
DataExtractorRun(outcome) ==
  LET raw == CallFfprobe(outcome) IN
  IF raw.exc # "none" THEN [exc |-> raw.exc, json |-> EmptyDoc]
  ELSE TryLoadJsonData(raw.result)

\* `not json_data` for a dictionary
IsFalsyDoc(json) == DOMAIN json = {}

\* ------------------------------------------------------------------------
\* DataTransformer
\* ------------------------------------------------------------------------
OutputDirectory == <<".","/","o","u","t","p","u","t">>
OutputExtension == <<"n","s","-","3","-","v","t","r","a","c","e">>

\* _get_output_filename
GetOutputFilename(file_basename) ==
  PathJoin(OutputDirectory,
           SplitextRoot(file_basename) \o <<".">> \o OutputExtension)

Digits == <<"0","1","2","3","4","5","6","7","8","9">>
IsDigit(c) == \E i \in 1..10 : Digits[i] = c
DigitVal(c) == (CHOOSE i \in 1..10 : Digits[i] = c) - 1

\* str(n) for a natural number
RECURSIVE IntToStr(_)
IntToStr(n) ==
  IF n < 10 THEN <<Digits[n + 1]>>
  ELSE Append(IntToStr(n \div 10), Digits[(n % 10) + 1])

\* the value of a string of digits
RECURSIVE DigitsVal(_)
DigitsVal(s) ==
  IF s = <<>> THEN 0
  ELSE 10 * DigitsVal(SubSeq(s, 1, Len(s) - 1)) + DigitVal(s[Len(s)])

\* float(s) accepts the decimal numerals ffprobe prints: digits with at most
\* one point and at least one digit; anything else raises ValueError
IsDecimal(s) ==
  /\ \A i \in 1..Len(s) : IsDigit(s[i]) \/ s[i] = "."
  /\ Cardinality({i \in 1..Len(s) : s[i] = "."}) <= 1
  /\ \E i \in 1..Len(s) : IsDigit(s[i])

\* --- IEEE 754 binary64, as float(), * and math.trunc compute ---
\* Natural numbers too wide for the 32-bit integers of TLC are sequences
\* of limbs of LimbBits bits, most significant first; a double is m * 2^e
\* with m of at most MantissaBits bits. A sequence built by a function
\* constructor is concatenated to <<>> so that its elements are evaluated
\* once.
MantissaBits == 53
LimbBits == 10
LimbBase == 1024

\* 2^k for k up to LimbBits
Pow2Table == <<1, 2, 4, 8, 16, 32, 64, 128, 256, 512, 1024>>
Pow2(k) == Pow2Table[k + 1]

\* 10^d
RECURSIVE Pow10(_)
Pow10(d) == IF d = 0 THEN 1 ELSE 10 * Pow10(d - 1)

Zeros(n) == [i \in 1..n |-> 0]

\* the limbs of a natural number below 2^31
NatLimbs(n) ==
  <<n \div (LimbBase * LimbBase * LimbBase),
    (n \div (LimbBase * LimbBase)) % LimbBase,
    (n \div LimbBase) % LimbBase,
    n % LimbBase>>

\* the natural number of a sequence of limbs
RECURSIVE LimbsVal(_)
LimbsVal(l) ==
  IF l = <<>> THEN 0
  ELSE LimbBase * LimbsVal(SubSeq(l, 1, Len(l) - 1)) + l[Len(l)]

\* the limbs without their leading zero limbs (l is not zero)
StripZeros(l) ==
  SubSeq(l, CHOOSE i \in 1..Len(l) :
              l[i] # 0 /\ \A j \in 1..(i-1) : l[j] = 0, Len(l))

\* the number of bits of a non-zero limb, and of non-zero limbs
BitLen(x) == CHOOSE k \in 1..LimbBits : Pow2(k - 1) <= x /\ x < Pow2(k)
BitLenLimbs(l) ==
  LET t == StripZeros(l) IN LimbBits * (Len(t) - 1) + BitLen(t[1])

\* long division of the limbs by a small divisor, from limb i on with the
\* remainder and the quotient of the limbs before it
RECURSIVE DivLoop(_, _, _, _, _)
DivLoop(l, divisor, i, rem, q) ==
  IF i > Len(l) THEN [q |-> q, r |-> rem]
  ELSE LET t == LimbBase * rem + l[i] IN
       DivLoop(l, divisor, i + 1, t % divisor, Append(q, t \div divisor))

\* quotient and remainder of the limbs by a divisor below 2^20
DivLimbs(l, divisor) == DivLoop(l, divisor, 1, 0, <<>>)

\* the limbs times a small factor, from limb i down with the carry and the
\* product of the limbs after it
RECURSIVE MulLoop(_, _, _, _, _)
MulLoop(l, k, i, carry, p) ==
  IF i = 0 THEN <<carry>> \o p
  ELSE LET t == l[i] * k + carry IN
       MulLoop(l, k, i - 1, t \div LimbBase, <<t % LimbBase>> \o p)

\* the limbs times a factor below 2^20
MulLimbs(l, k) == MulLoop(l, k, Len(l), 0, <<>>)

\* the limbs shifted right by s bits (s below the width of l)
ShiftRightLimbs(l, s) ==
  LET a    == s \div LimbBits
      r    == s % LimbBits
      kept == SubSeq(l, 1, Len(l) - a)
  IN  <<>> \o
      [i \in 1..Len(kept) |->
         ((IF i = 1 THEN 0 ELSE kept[i - 1]) % Pow2(r)) * Pow2(LimbBits - r)
           + (kept[i] \div Pow2(r))]

\* some of the s lowest bits of the limbs is set
LowBitsNonZero(l, s) ==
  LET a == s \div LimbBits
      r == s % LimbBits
  IN  \/ \E i \in (Len(l) - a + 1)..Len(l) : l[i] # 0
      \/ l[Len(l) - a] % Pow2(r) # 0

\* the limbs plus one
AddOneLimbs(l) ==
  IF \A i \in 1..Len(l) : l[i] = LimbBase - 1 THEN <<1>> \o Zeros(Len(l))
  ELSE LET z == CHOOSE i \in 1..Len(l) :
                  l[i] # LimbBase - 1
                    /\ \A j \in (i+1)..Len(l) : l[j] = LimbBase - 1
       IN  <<>> \o
           [j \in 1..Len(l) |->
              IF j < z THEN l[j] ELSE IF j = z THEN l[j] + 1 ELSE 0]

\* round-half-to-even of the non-zero limbs l (sticky: a non-zero part lies
\* below their last bit) to MantissaBits bits: the mantissa and the number
\* of bits dropped
RoundLimbs(l, sticky) ==
  LET t == StripZeros(l)
      n == LimbBits * (Len(t) - 1) + BitLen(t[1])
  IN  IF n <= MantissaBits THEN [m |-> t, shift |-> 0]
      ELSE
        LET s    == n - MantissaBits
            q2   == ShiftRightLimbs(t, s - 1)
            half == q2[Len(q2)] % 2 = 1
            more == sticky \/ LowBitsNonZero(t, s - 1)
            q    == ShiftRightLimbs(q2, 1)
            up   == half /\ (more \/ q[Len(q)] % 2 = 1)
            r    == IF up THEN AddOneLimbs(q) ELSE q
        IN  IF BitLenLimbs(r) > MantissaBits
            THEN [m |-> ShiftRightLimbs(r, 1), shift |-> s + 1]
            ELSE [m |-> r, shift |-> s]

\* guard limbs of the quotient of float(): the divisor stays below 2^20, so
\* the quotient has more than MantissaBits + 1 bits
GuardLimbs == 8

\* float(s) of a decimal numeral with at most six digits after the point,
\* as ffprobe prints them: the double nearest to its value
FloatOfDecimal(s) ==
  LET dot   == RFind(s, ".")
      whole == IF dot = 0 THEN s ELSE SubSeq(s, 1, dot - 1)
      frac  == IF dot = 0 THEN <<>> ELSE SubSeq(s, dot + 1, Len(s))
      n     == DigitsVal(whole \o frac)
  IN  IF n = 0 THEN [m |-> <<>>, e |-> 0]
      ELSE LET dv == DivLimbs(NatLimbs(n) \o Zeros(GuardLimbs),
                              Pow10(Len(frac)))
               r  == RoundLimbs(dv.q, dv.r # 0)
           IN  [m |-> r.m, e |-> r.shift - LimbBits * GuardLimbs]

\* x * 1000.0, rounded to the nearest double
FloatTimes1000(x) ==
  IF x.m = <<>> THEN x
  ELSE LET r == RoundLimbs(MulLimbs(x.m, 1000), FALSE)
       IN  [m |-> r.m, e |-> x.e + r.shift]

\* math.trunc(x) for x >= 0
FloatTrunc(x) ==
  IF x.m = <<>> THEN 0
  ELSE IF x.e >= 0 THEN LimbsVal(x.m \o Zeros(x.e \div LimbBits))
                          * Pow2(x.e % LimbBits)
  ELSE IF BitLenLimbs(x.m) + x.e <= 0 THEN 0
  ELSE LimbsVal(ShiftRightLimbs(x.m, -x.e))

\* math.trunc(float(s) * 1000.0)
TimeMs(s) == FloatTrunc(FloatTimes1000(FloatOfDecimal(s)))

\* the exception the body of the loop of _convert_data raises on one frame:
\* the four subscripts raise KeyError, float() raises ValueError, in the
\* order of the statements
FrameExc(frame) ==
  IF "coded_picture_number" \notin DOMAIN frame THEN "KeyError"
  ELSE IF "pict_type" \notin DOMAIN frame THEN "KeyError"
  ELSE IF "pts_time" \notin DOMAIN frame THEN "KeyError"
  ELSE IF ~IsDecimal(frame.pts_time) THEN "ValueError"
  ELSE IF "pkt_size" \notin DOMAIN frame THEN "KeyError"
  ELSE "none"

\* the f-string of one frame
TraceLine(frame) ==
  LET frame_number  == frame.coded_picture_number
      frame_type    == frame.pict_type
      frame_time_ms == TimeMs(frame.pts_time)
      frame_size    == frame.pkt_size
  IN  frame_number \o <<" ">> \o frame_type \o <<" ">>
        \o IntToStr(frame_time_ms) \o <<" ">> \o frame_size

\* '\n'.join(lines)
RECURSIVE JoinLines(_)
JoinLines(lines) ==
  IF lines = <<>> THEN <<>>
  ELSE IF Len(lines) = 1 THEN lines[1]
  ELSE lines[1] \o <<"\n">> \o JoinLines(Tail(lines))

\* the loop of _convert_data: the line of every frame is appended, in
\* order, to transformed_data
RECURSIVE ConvertLoop(_, _)
ConvertLoop(transformed_data, frames) ==
  IF frames = <<>> THEN transformed_data
  ELSE ConvertLoop(Append(transformed_data, TraceLine(Head(frames))),
                   Tail(frames))

\* a variant of the rendering that ends the text with a newline
ConvertDataTrailingNewline(json) ==
  IF "frames" \notin DOMAIN json THEN [exc |-> "KeyError", text |-> <<>>]
  ELSE
    LET frames == json.frames
        bad    == {i \in 1..Len(frames) : FrameExc(frames[i]) # "none"}
    IN  IF bad # {}
        THEN [exc  |-> FrameExc(frames[CHOOSE i \in bad :
                                         \A j \in bad : i <= j]),
              text |-> <<>>]
        ELSE [exc  |-> "none",
              text |-> LET text == JoinLines(ConvertLoop(<<>>, frames))
                       IN  IF text = <<>> THEN text ELSE text \o <<"\n">>]

\* _convert_data: the exception of the first frame that raises, else the
\* joined lines
ConvertData(json) ==
  IF "frames" \notin DOMAIN json THEN [exc |-> "KeyError", text |-> <<>>]
  ELSE
    LET frames == json.frames
        bad    == {i \in 1..Len(frames) : FrameExc(frames[i]) # "none"}
    IN  IF bad # {}
        THEN [exc  |-> FrameExc(frames[CHOOSE i \in bad :
                                         \A j \in bad : i <= j]),
              text |-> <<>>]
        ELSE [exc  |-> "none",
              text |-> JoinLines(ConvertLoop(<<>>, frames))]

\* _try_convert_data: ValueError is the only exception caught
TryConvertData(json) ==
  LET r == ConvertData(json) IN
  IF r.exc = "ValueError" THEN [exc |-> "none", text |-> <<>>] ELSE r

\* a variant of the test that lets an empty text through
RenderingFailedNever(transformed_data) == FALSE

\* `if not transformed_data: return False` in DataTransformer.run
RenderingFailed(transformed_data) == transformed_data = <<>>

\* ------------------------------------------------------------------------
\* State
\* ------------------------------------------------------------------------
VARIABLES
  fs,               \* the filesystem entries of the input paths
  san,              \* the fields of the InputFilesSanitiser instance
  san_calls,        \* how many times its run() has been called
  san_ret,          \* the list its last run() returned
  env,              \* arguments and environment of the dispatch
  ffprobe_path,     \* DataExtractor.ffprobe_executable._ffprobe_path
  tool_ok,          \* what _process_args returned: "unknown", "yes", "no"
  input_filenames,  \* EntryPoint._input_filenames
  scanned,          \* _parse_input_directory has been called
  pc,               \* position of the main thread in EntryPoint.run
  wk,               \* the worker threads, in the order they were started
  joined,           \* how many of them _spread_work has joined
  return_value,     \* EntryPoint._return_value
  lock,             \* EntryPoint._lock: 0 when free, else the holder
  outdir,           \* the output directory exists
  out,              \* the files of the output directory and their contents
  ret               \* what EntryPoint.run returned ("none" before)

vars == <<fs, san, san_calls, san_ret, env, ffprobe_path, tool_ok,
          input_filenames, scanned, pc, wk, joined, return_value, lock,
          outdir, out, ret>>

sanVars  == <<fs, san, san_calls, san_ret>>
mainVars == <<env, ffprobe_path, tool_ok, input_filenames, scanned, pc,
              joined, ret>>
outVars  == <<outdir, out>>

\* ------------------------------------------------------------------------
\* Tool availability
\* ------------------------------------------------------------------------
\* os.path.exists(executable_path) for the --ffprobe-path argument
OverrideExists(e) == e.override \in {"notexec", "exec"}

\* shutil.which of the configured path: a custom path must be an executable
\* file, the default name must be found on PATH
Which(e, path) ==
  IF path = "custom" THEN e.override = "exec" ELSE e.on_path

\* is_ffprobe_available: an existing override replaces the configured path,
\* whatever it is; the answer is whether the configured path resolves
IsFfprobeAvailable(e, path) ==
  LET newpath == IF OverrideExists(e) THEN "custom" ELSE path
  IN  [path |-> newpath, ok |-> Which(e, newpath)]

\* ------------------------------------------------------------------------
\* Initial states
\* ------------------------------------------------------------------------
NoListing == {}
Listing   == {GitignoreName, ScannedName}

\* --ffprobe-path names nothing, a file that cannot be executed or an
\* executable; "ffprobe" is on PATH or not
Tools ==
  {[override |-> "absent",  on_path |-> TRUE],
   [override |-> "absent",  on_path |-> FALSE],
   [override |-> "notexec", on_path |-> TRUE],
   [override |-> "exec",    on_path |-> FALSE]}

Envs ==
  {[override |-> t.override, on_path |-> t.on_path,
    disable_input_dir |-> d, input_dir_exists |-> x] :
   t \in Tools, d \in BOOLEAN, x \in BOOLEAN}

\* what os.listdir finds in the input directory
DirEntries(e) == IF e.input_dir_exists THEN Listing ELSE NoListing

OldText   == <<"o","l","d">>
NoFiles   == [p \in {} |-> <<>>]
OldOutput == [p \in {GetOutputFilename(Basename(PathAC))} |-> OldText]

\* the filesystem of a dispatch: d.mp4 is a directory, the other entries are
\* regular files
DispatchFs(e) ==
  [p \in Paths |->
     CASE p = PathDM  -> Dir
       [] p = PathICU -> IF e.input_dir_exists THEN File ELSE Absent
       [] OTHER       -> File]

ArgPaths == {PathAC, PathBC, PathACU, PathBY, PathDM}

DispatchIdle ==
  /\ ffprobe_path = "ffprobe"
  /\ tool_ok = "unknown"
  /\ scanned = FALSE
  /\ wk = <<>>
  /\ joined = 0
  /\ return_value = SUCCESS
  /\ lock = 0
  /\ ret = "none"

\* EntryPoint(argv), about to run
Init ==
  /\ env \in Envs
  /\ fs = DispatchFs(env)
  /\ input_filenames \in SeqsUpTo(ArgPaths, MaxArgs)
  /\ san = NewSanitiser(<<>>)
  /\ san_calls = 0
  /\ san_ret = <<>>
  /\ pc = "process_args"
  /\ outdir \in BOOLEAN
  /\ out \in (IF outdir THEN {NoFiles, OldOutput} ELSE {NoFiles})
  /\ DispatchIdle

\* InputFilesSanitiser(input_paths), about to run
InitSan ==
  /\ fs \in FsStates
  /\ \E inputs \in SeqsUpTo(Paths, MaxLen) : san = NewSanitiser(inputs)
  /\ san_calls = 0
  /\ san_ret = <<>>
  /\ env = [override |-> "absent", on_path |-> TRUE,
            disable_input_dir |-> TRUE, input_dir_exists |-> FALSE]
  /\ input_filenames = <<>>
  /\ pc = "idle"
  /\ outdir = FALSE
  /\ out = NoFiles
  /\ DispatchIdle

\* ------------------------------------------------------------------------
\* The stand-alone sanitiser
\* ------------------------------------------------------------------------
\* one call of run() on the instance
SanCall ==
  /\ pc = "idle"
  /\ san_calls < MaxCalls
  /\ san' = SanitiserRun(san, fs)
  /\ san_ret' = san'.filtered_filenames
  /\ san_calls' = san_calls + 1
  /\ UNCHANGED <<fs, mainVars, wk, return_value, lock, outVars>>

NextSan == SanCall

SpecSan == InitSan /\ [][NextSan]_vars

\* ------------------------------------------------------------------------
\* EntryPoint.run: the main thread
\* ------------------------------------------------------------------------
\* the orders in which os.listdir may enumerate a directory
ListdirResults(entries) ==
  {l \in [1..Cardinality(entries) -> entries] :
     \A i, j \in 1..Cardinality(entries) : i # j => l[i] # l[j]}

\* list.remove(x): drops the first occurrence
RemoveFirst(l, x) ==
  LET i == CHOOSE k \in 1..Len(l) : l[k] = x /\ \A j \in 1..(k-1) : l[j] # x
  IN  SubSeq(l, 1, i - 1) \o SubSeq(l, i + 1, Len(l))

\* a variant of the first step of run() that goes on without the tool
ProcessArgsGoesOn ==
  /\ pc = "process_args"
  /\ LET r == IsFfprobeAvailable(env, ffprobe_path) IN
       /\ ffprobe_path' = r.path
       /\ tool_ok' = (IF r.ok THEN "yes" ELSE "no")
       /\ pc' = "input_dir"
       /\ UNCHANGED ret
  /\ UNCHANGED <<sanVars, env, input_filenames, scanned, wk, joined,
                 return_value, lock, outVars>>

\* _process_args, and the return of FFPROBE_NOT_FOUND when it fails
ProcessArgs ==
  /\ pc = "process_args"
  /\ LET r == IsFfprobeAvailable(env, ffprobe_path) IN
       /\ ffprobe_path' = r.path
       /\ tool_ok' = (IF r.ok THEN "yes" ELSE "no")
       /\ IF r.ok
          THEN pc' = "input_dir" /\ UNCHANGED ret
          ELSE pc' = "returned" /\ ret' = FFPROBE_NOT_FOUND
  /\ UNCHANGED <<sanVars, env, input_filenames, scanned, wk, joined,
                 return_value, lock, outVars>>

\* `if not disable_input_dir` is false: the scan is skipped
SkipInputDirectory ==
  /\ pc = "input_dir"
  /\ env.disable_input_dir
  /\ pc' = "check_inputs"
  /\ UNCHANGED <<sanVars, env, ffprobe_path, tool_ok, input_filenames,
                 scanned, wk, joined, return_value, lock, outVars, ret>>

\* _parse_input_directory
ParseInputDirectory ==
  /\ pc = "input_dir"
  /\ ~env.disable_input_dir
  /\ scanned' = TRUE
  /\ IF ~env.input_dir_exists
     THEN UNCHANGED input_filenames
     ELSE \E listed \in ListdirResults(DirEntries(env)) :
            LET files == IF \E i \in 1..Len(listed) : listed[i] = GitignoreName
                         THEN RemoveFirst(listed, GitignoreName)
                         ELSE listed
            IN  input_filenames' =
                  input_filenames \o
                    [i \in 1..Len(files) |-> PathJoin(InputDir, files[i])]
  /\ pc' = "check_inputs"
  /\ UNCHANGED <<sanVars, env, ffprobe_path, tool_ok, wk, joined,
                 return_value, lock, outVars, ret>>

\* a variant of the test of the merged list that reports success
NoFilesGivenReturnsSuccess ==
  /\ pc = "check_inputs"
  /\ input_filenames = <<>>
  /\ pc' = "returned"
  /\ ret' = SUCCESS
  /\ UNCHANGED <<sanVars, env, ffprobe_path, tool_ok, input_filenames,
                 scanned, wk, joined, return_value, lock, outVars>>

\* `if not self._input_filenames: return NO_VALID_FILE`
NoFilesGiven ==
  /\ pc = "check_inputs"
  /\ input_filenames = <<>>
  /\ pc' = "returned"
  /\ ret' = NO_VALID_FILE
  /\ UNCHANGED <<sanVars, env, ffprobe_path, tool_ok, input_filenames,
                 scanned, wk, joined, return_value, lock, outVars>>

\* InputFilesSanitiser(self._input_filenames).run(), and the return of
\* NO_VALID_FILE when nothing is left
Sanitise ==
  /\ pc = "check_inputs"
  /\ input_filenames # <<>>
  /\ san' = SanitiserRun(NewSanitiser(input_filenames), fs)
  /\ san_calls' = 1
  /\ san_ret' = san'.filtered_filenames
  /\ IF san_ret' = <<>>
     THEN pc' = "returned" /\ ret' = NO_VALID_FILE
     ELSE pc' = "start" /\ UNCHANGED ret
  /\ UNCHANGED <<fs, env, ffprobe_path, tool_ok, input_filenames, scanned,
                 wk, joined, return_value, lock, outVars>>

\* the locals of a thread that has just been started on a file
NewWorker(filename) ==
  [file |-> filename, pc |-> "extract", json |-> EmptyDoc, text |-> <<>>,
   bit |-> 0, tmp |-> 0, ext |-> "none", tr |-> "none"]

\* first loop of _spread_work: threading.Thread(...).start()
StartThread ==
  /\ pc = "start"
  /\ wk' = Append(wk, NewWorker(san_ret[Len(wk) + 1]))
  /\ pc' = IF Len(wk') = Len(san_ret) THEN "join" ELSE "start"
  /\ UNCHANGED <<sanVars, env, ffprobe_path, tool_ok, input_filenames,
                 scanned, joined, return_value, lock, outVars, ret>>

\* a variant of the test of join() that does not wait
ThreadFinishedNoWait(worker) == TRUE

\* what thread.join() waits for: the thread function has returned or an
\* exception has ended it
ThreadFinished(worker) == worker.pc \in {"done", "died"}

\* second loop of _spread_work: thread.join()
JoinThread ==
  /\ pc = "join"
  /\ joined < Len(wk)
  /\ ThreadFinished(wk[joined + 1])
  /\ joined' = joined + 1
  /\ UNCHANGED <<sanVars, env, ffprobe_path, tool_ok, input_filenames,
                 scanned, pc, wk, return_value, lock, outVars, ret>>

\* `return self._return_value`
Return ==
  /\ pc = "join"
  /\ joined = Len(wk)
  /\ pc' = "returned"
  /\ ret' = return_value
  /\ UNCHANGED <<sanVars, env, ffprobe_path, tool_ok, input_filenames,
                 scanned, wk, joined, return_value, lock, outVars>>

\* ------------------------------------------------------------------------
\* EntryPoint._worker_thread: one thread per sanitised file
\* ------------------------------------------------------------------------
Workers == 1..Len(wk)

\* the thread function has returned: its locals are gone
Returned(worker) ==
  [worker EXCEPT !.pc = "done", !.json = EmptyDoc, !.text = <<>>,
                 !.bit = 0, !.tmp = 0]

\* an exception has left the thread function: the thread ends
Died(worker) ==
  [worker EXCEPT !.pc = "died", !.json = EmptyDoc, !.text = <<>>,
                 !.bit = 0, !.tmp = 0]

\* the branch that reports a failure: `with self._lock:` comes next
Failing(worker, bit) == [worker EXCEPT !.pc = "lock", !.bit = bit]

\* the output file of a worker
OutputOf(worker) == GetOutputFilename(Basename(worker.file))

\* the files with the contents of one of them set
WithFile(files, p, content) ==
  [q \in DOMAIN files \cup {p} |-> IF q = p THEN content ELSE files[q]]

\* a variant of the worker that transforms whatever the extraction returned
ExtractThenAlwaysTransform(w) ==
  /\ wk[w].pc = "extract"
  /\ \E outcome \in ProbeOutcomes :
       LET r == DataExtractorRun(outcome) IN
       wk' = [wk EXCEPT ![w] =
                IF r.exc # "none" THEN Died([@ EXCEPT !.ext = "raised"])
                ELSE [@ EXCEPT !.ext = IF IsFalsyDoc(r.json) THEN "empty"
                                       ELSE "ok",
                               !.json = r.json, !.pc = "t_isdir"]]
  /\ UNCHANGED <<sanVars, mainVars, return_value, lock, outVars>>

\* DataExtractor(filename).run() and `if not json_data`
Extract(w) ==
  /\ wk[w].pc = "extract"
  /\ \E outcome \in ProbeOutcomes :
       LET r == DataExtractorRun(outcome) IN
       wk' = [wk EXCEPT ![w] =
                IF r.exc # "none" THEN Died([@ EXCEPT !.ext = "raised"])
                ELSE IF IsFalsyDoc(r.json)
                THEN Failing([@ EXCEPT !.ext = "empty"], FFPROBE_ERROR)
                ELSE [@ EXCEPT !.ext = "ok", !.json = r.json,
                               !.pc = "t_isdir"]]
  /\ UNCHANGED <<sanVars, mainVars, return_value, lock, outVars>>

\* DataTransformer.__init__, _ensure_output_directory_exists: os.path.isdir
TransformIsdir(w) ==
  /\ wk[w].pc = "t_isdir"
  /\ wk' = [wk EXCEPT ![w].pc = IF outdir THEN "t_convert" ELSE "t_mkdir"]
  /\ UNCHANGED <<sanVars, mainVars, return_value, lock, outVars>>

\* _ensure_output_directory_exists: os.mkdir, whose FileExistsError (the
\* directory has appeared since the test) or other OSError is not caught
TransformMkdir(w) ==
  /\ wk[w].pc = "t_mkdir"
  /\ \/ /\ ~outdir
        /\ outdir' = TRUE
        /\ wk' = [wk EXCEPT ![w].pc = "t_convert"]
     \/ /\ outdir' = outdir
        /\ wk' = [wk EXCEPT ![w] = Died([@ EXCEPT !.tr = "raised"])]
  /\ UNCHANGED <<sanVars, mainVars, return_value, lock, out>>

\* DataTransformer.run: _try_convert_data and the test of its result
TransformConvert(w) ==
  /\ wk[w].pc = "t_convert"
  /\ wk' = LET r == TryConvertData(wk[w].json) IN
           [wk EXCEPT ![w] =
              IF r.exc # "none" THEN Died([@ EXCEPT !.tr = "raised"])
              ELSE IF RenderingFailed(r.text)
              THEN Failing([@ EXCEPT !.tr = "false"], TRANSFORM_ERROR)
              ELSE [@ EXCEPT !.text = r.text, !.pc = "t_open"]]
  /\ UNCHANGED <<sanVars, mainVars, return_value, lock, outVars>>

\* a variant of the open mode that truncates an existing file ('w')
ExclusiveCreateFailsNever(files, p) == FALSE

\* open(..., 'x') raises FileExistsError when the path exists
ExclusiveCreateFails(files, p) == p \in DOMAIN files

\* _write_data_to_file: open(self._output_filename, 'x'); every OSError
\* makes it return False
TransformOpen(w) ==
  /\ wk[w].pc = "t_open"
  /\ LET p == OutputOf(wk[w]) IN
     \/ /\ ExclusiveCreateFails(out, p)
        /\ out' = out
        /\ wk' = [wk EXCEPT ![w] =
                    Failing([@ EXCEPT !.tr = "false"], TRANSFORM_ERROR)]
     \/ /\ ~ExclusiveCreateFails(out, p)
        /\ \/ /\ out' = WithFile(out, p, <<>>)
              /\ wk' = [wk EXCEPT ![w].pc = "t_write"]
           \/ /\ out' = out
              /\ wk' = [wk EXCEPT ![w] =
                          Failing([@ EXCEPT !.tr = "false"], TRANSFORM_ERROR)]
  /\ UNCHANGED <<sanVars, mainVars, return_value, lock, outdir>>

\* _write_data_to_file: output_file.write and the close of the file; an
\* OSError leaves some proper prefix of the text and makes it return False
TransformWrite(w) ==
  /\ wk[w].pc = "t_write"
  /\ LET p == OutputOf(wk[w]) IN
     \/ /\ out' = WithFile(out, p, wk[w].text)
        /\ wk' = [wk EXCEPT ![w] = Returned([@ EXCEPT !.tr = "true"])]
     \/ /\ \E k \in {0, Len(wk[w].text) - 1} :
             out' = WithFile(out, p, SubSeq(wk[w].text, 1, k))
        /\ wk' = [wk EXCEPT ![w] =
                    Failing([@ EXCEPT !.tr = "false"], TRANSFORM_ERROR)]
  /\ UNCHANGED <<sanVars, mainVars, return_value, lock, outdir>>

\* a variant of the lock that never blocks
LockAvailableAlways(l) == TRUE

\* threading.Lock: acquired only when no thread holds it
LockAvailable(l) == l = 0

\* `with self._lock:` entered
AcquireLock(w) ==
  /\ wk[w].pc = "lock"
  /\ LockAvailable(lock)
  /\ lock' = w
  /\ wk' = [wk EXCEPT ![w].pc = "read"]
  /\ UNCHANGED <<sanVars, mainVars, return_value, outVars>>

\* `self._return_value |= bit`: the load of the attribute
ReadReturnValue(w) ==
  /\ wk[w].pc = "read"
  /\ wk' = [wk EXCEPT ![w].tmp = return_value, ![w].pc = "write"]
  /\ UNCHANGED <<sanVars, mainVars, return_value, lock, outVars>>

\* `self._return_value |= bit`: the store of the attribute, then the lock
\* is released and the thread function returns
WriteReturnValue(w) ==
  /\ wk[w].pc = "write"
  /\ return_value' = BitOr(wk[w].tmp, wk[w].bit)
  /\ lock' = 0
  /\ wk' = [wk EXCEPT ![w] = Returned(@)]
  /\ UNCHANGED <<sanVars, mainVars, outVars>>

Next ==
  \/ ProcessArgs
  \/ SkipInputDirectory
  \/ ParseInputDirectory
  \/ NoFilesGiven
  \/ Sanitise
  \/ StartThread
  \/ JoinThread
  \/ Return
  \/ \E w \in Workers : Extract(w)
  \/ \E w \in Workers : TransformIsdir(w)
  \/ \E w \in Workers : TransformMkdir(w)
  \/ \E w \in Workers : TransformConvert(w)
  \/ \E w \in Workers : TransformOpen(w)
  \/ \E w \in Workers : TransformWrite(w)
  \/ \E w \in Workers : AcquireLock(w)
  \/ \E w \in Workers : ReadReturnValue(w)
  \/ \E w \in Workers : WriteReturnValue(w)

Spec == Init /\ [][Next]_vars

\* ------------------------------------------------------------------------
\* DataTransformer(json_data, basename).run() on its own
\* ------------------------------------------------------------------------
\* frames ffprobe may report
LaterFrame  == Frame(<<"1">>, <<"P">>, <<"2",".","0","1">>, <<"5">>)
LatestFrame == Frame(<<"2">>, <<"B">>, <<"3">>, <<"9">>)

TransformFrames ==
  {GoodFrame, LaterFrame, LatestFrame, BadPtsFrame, NoSizeFrame}

\* the documents with a list of frames
TransformDocs ==
  {[frames |-> f] : f \in SeqsUpTo(TransformFrames, MaxFrames)}

\* the one thread of a dispatch of a/c.mp4, whose extraction has returned a
\* document, about to construct the DataTransformer
InitTransform ==
  /\ env = [override |-> "absent", on_path |-> TRUE,
            disable_input_dir |-> TRUE, input_dir_exists |-> FALSE]
  /\ fs = DispatchFs(env)
  /\ input_filenames = <<PathAC>>
  /\ san = SanitiserRun(NewSanitiser(input_filenames), fs)
  /\ san_calls = 1
  /\ san_ret = san.filtered_filenames
  /\ ffprobe_path = "ffprobe"
  /\ tool_ok = "yes"
  /\ scanned = FALSE
  /\ pc = "join"
  /\ \E doc \in TransformDocs :
       wk = <<[NewWorker(san_ret[1]) EXCEPT
                 !.ext = "ok", !.json = doc, !.pc = "t_isdir"]>>
  /\ joined = 0
  /\ return_value = SUCCESS
  /\ lock = 0
  /\ ret = "none"
  /\ outdir \in BOOLEAN
  /\ out \in (IF outdir THEN {NoFiles, OldOutput} ELSE {NoFiles})

NextTransform ==
  \/ \E w \in Workers : TransformIsdir(w)
  \/ \E w \in Workers : TransformMkdir(w)
  \/ \E w \in Workers : TransformConvert(w)
  \/ \E w \in Workers : TransformOpen(w)
  \/ \E w \in Workers : TransformWrite(w)

SpecTransform == InitTransform /\ [][NextTransform]_vars

\* ------------------------------------------------------------------------
\* Properties of the sanitiser
\* ------------------------------------------------------------------------
\* a is b with some elements left out
RECURSIVE IsSubsequence(_, _)
IsSubsequence(a, b) ==
  IF a = <<>> THEN TRUE
  ELSE IF b = <<>> THEN FALSE
  ELSE IF Head(a) = Head(b) THEN IsSubsequence(Tail(a), Tail(b))
  ELSE IsSubsequence(a, Tail(b))

\* the last four characters are ".mp4" in any mix of cases
EndsWithMp4AnyCase(p) ==
  LET n == Len(p) IN
  /\ n >= 4
  /\ p[n-3] = "."
  /\ p[n-2] \in {"m", "M"}
  /\ p[n-1] \in {"p", "P"}
  /\ p[n] = "4"

\* C1: the list returned by run() on a newly constructed sanitiser is an
\* order-preserving subsequence of the input, with no two entries of equal
\* base filename or equal canonical path, and every entry exists, is a
\* regular file and ends with ".mp4" case-insensitively.
C1_SanitisedList ==
  san_calls = 1 =>
    /\ IsSubsequence(san_ret, san.input_paths)
    /\ \A i, j \in 1..Len(san_ret) :
         i # j => /\ Basename(san_ret[i]) # Basename(san_ret[j])
                  /\ Realpath(fs, san_ret[i]) # Realpath(fs, san_ret[j])
    /\ \A i \in 1..Len(san_ret) :
         /\ fs[Resolve(fs, san_ret[i])].kind = "file"
         /\ EndsWithMp4AnyCase(san_ret[i])

\* a run that kept two paths and dropped another
C1_Witness ==
  /\ san_calls = 1
  /\ Len(san.input_paths) = 3
  /\ Len(san_ret) = 2
  /\ \E i \in 1..3 : fs[san.input_paths[i]].kind = "dir"

\* two file names collide on one of the two keys
Clash(a, b) ==
  \/ Basename(a) = Basename(b)
  \/ Realpath(fs, a) = Realpath(fs, b)

\* the elements of e at the positions of the set keep, in order
Pick(e, keep) ==
  [k \in 1..Cardinality(keep) |->
     e[CHOOSE i \in keep : Cardinality({j \in keep : j <= i}) = k]]

\* C2: the dedup stage is first-seen-wins: an existing regular file is
\* dropped exactly when an earlier file that the stage accepted has the same
\* base filename or the same canonical path; accepted files stay accepted.
C2_FirstSeenWins ==
  san_calls = 1 =>
    LET e == san.existing_filenames
        accepted[i \in 1..Len(e)] ==
          ~ \E j \in 1..(i-1) : accepted[j] /\ Clash(e[j], e[i])
    IN  /\ san.deduped_filenames = Pick(e, {i \in 1..Len(e) : accepted[i]})
        /\ (/\ san.input_paths = <<PathAC, PathBC>>
            /\ fs[PathAC] = File /\ fs[PathBC] = File)
             => san.deduped_filenames = <<PathAC>>
        /\ (/\ san.input_paths = <<PathAC, PathBY>>
            /\ fs[PathAC] = File /\ fs[PathBY] = Link(PathAC))
             => san.deduped_filenames = <<PathAC>>

\* a file and a later symbolic link to it were both given
C2_Witness ==
  /\ san_calls = 1
  /\ san.input_paths = <<PathAC, PathBY>>
  /\ fs[PathAC] = File
  /\ fs[PathBY] = Link(PathAC)
  /\ san.deduped_filenames = <<PathAC>>

\* ------------------------------------------------------------------------
\* Properties of the dispatch
\* ------------------------------------------------------------------------
\* the file's extraction did not yield frame data
ExtractionFailed(worker) == worker.ext \in {"empty", "raised"}

\* the file's transform was started and did not write the trace file
TransformFailed(worker) == worker.tr \in {"false", "raised"}

\* the bitwise OR of the outcomes of the files
OutcomesOr ==
  (IF \E w \in Workers : ExtractionFailed(wk[w]) THEN FFPROBE_ERROR ELSE 0)
  + (IF \E w \in Workers : TransformFailed(wk[w]) THEN TRANSFORM_ERROR ELSE 0)

\* C3: the code run() returns after the workers have finished is the bitwise
\* OR of the outcomes of the files: FFPROBE_ERROR for every file whose
\* extraction failed, TRANSFORM_ERROR for every file whose transform failed,
\* in every interleaving.
C3_ReturnIsOrOfOutcomes ==
  (pc = "returned" /\ wk # <<>>) => ret = OutcomesOr

\* C4: every worker that does not write its trace file ends normally with
\* its error bit in the accumulator, so run() returns SUCCESS only if every
\* validated file produced its output file.
C4_ErrorsBecomeBits ==
  /\ \A w \in Workers : wk[w].pc # "died"
  /\ (pc = "returned" /\ wk # <<>> /\ ret = SUCCESS)
       => \A w \in Workers : wk[w].tr = "true"

\* C5: two different entries of the sanitised list never derive the same
\* output path, so no two workers of a dispatch target the same file.
C5_DistinctOutputs ==
  /\ \A i, j \in 1..Len(san_ret) :
       i # j => GetOutputFilename(Basename(san_ret[i]))
                  # GetOutputFilename(Basename(san_ret[j]))
  /\ \A v, w \in Workers :
       v # w => OutputOf(wk[v]) # OutputOf(wk[w])

\* the tool resolves: an existing --ffprobe-path must be an executable,
\* otherwise "ffprobe" must be on PATH
ToolResolves ==
  IF env.override = "absent" THEN env.on_path ELSE env.override = "exec"

\* nothing beyond the availability check has been done
NothingAttempted ==
  /\ ~scanned
  /\ san_calls = 0
  /\ wk = <<>>
  /\ out \in {NoFiles, OldOutput}

\* C6: when the tool cannot be resolved run() returns exactly
\* FFPROBE_NOT_FOUND without a directory scan, a sanitisation, an extraction
\* or a worker; the availability check is the first step of every dispatch.
C6_ToolNotFoundShortCircuit ==
  /\ pc = "process_args" => NothingAttempted
  /\ (pc # "process_args" /\ ~ToolResolves)
       => /\ pc = "returned"
          /\ ret = FFPROBE_NOT_FOUND
          /\ NothingAttempted

\* a dispatch that ended on the unavailable tool although "ffprobe" is on
\* PATH, because the override exists and cannot be executed
C6_Witness ==
  /\ pc = "returned"
  /\ ret = FFPROBE_NOT_FOUND
  /\ env.override = "notexec"
  /\ ~env.disable_input_dir
  /\ input_filenames # <<>>

\* the worker takes a step of its Transform, before any file is its own
TransformStep(w) ==
  /\ wk[w].pc \in {"t_isdir", "t_mkdir", "t_convert", "t_open"}
  /\ wk'[w] # wk[w]

\* C7: a Transform whose output path already exists never modifies that
\* file, and when it has rendered non-empty records it returns False.
C7_ExistingOutputKept ==
  [][\A w \in Workers :
       (TransformStep(w) /\ OutputOf(wk[w]) \in DOMAIN out)
         => /\ out'[OutputOf(wk[w])] = out[OutputOf(wk[w])]
            /\ wk[w].pc = "t_open" => wk'[w].tr = "false"]_vars

\* a second Transform of the same output path in one dispatch has failed
\* and the file holds what the first one wrote
C7_Witness ==
  \E v, w \in Workers :
    /\ v # w
    /\ OutputOf(wk[v]) = OutputOf(wk[w])
    /\ wk[v].tr = "true"
    /\ wk[w].tr = "false"
    /\ wk[w].text # <<>>
    /\ out[OutputOf(wk[w])] = wk[w].text

\* C8: run() returns the accumulator only after every worker thread it
\* started has completed; no worker runs or updates the accumulator after
\* the return.
C8_JoinBarrier ==
  (pc = "returned" /\ wk # <<>>)
    => /\ \A w \in Workers : wk[w].pc \in {"done", "died"}
       /\ Len(wk) = Len(san_ret)
       /\ lock = 0
       /\ ret = return_value

\* two workers reported different failures and run() has returned both
C8_Witness ==
  /\ pc = "returned"
  /\ Len(wk) = 2
  /\ ret = FFPROBE_ERROR + TRANSFORM_ERROR

\* the record set of the worker's Transform has no frame
EmptyRecordSet(worker) ==
  /\ "frames" \in DOMAIN worker.json
  /\ worker.json.frames = <<>>

\* C9: Transform on a record set with zero frames returns False and creates
\* no file at the derived output path.
C9_EmptyRecordSetFails ==
  [][\A w \in Workers :
       (wk[w].pc = "t_convert" /\ wk'[w] # wk[w] /\ EmptyRecordSet(wk[w]))
         => /\ wk'[w].tr = "false"
            /\ out' = out]_vars

\* a Transform of zero frames has returned False and its output path is free
C9_Witness ==
  \E w \in Workers :
    /\ EmptyRecordSet(wk[w])
    /\ wk[w].tr = "false"
    /\ OutputOf(wk[w]) \notin DOMAIN out

\* C10: DataExtractor.run() never raises: a non-zero exit, a failed launch
\* and unparseable output all give an empty result.
C10_ExtractionNeverRaises ==
  \A w \in Workers : wk[w].ext # "raised"

\* ------------------------------------------------------------------------
\* Properties of the rendering
\* ------------------------------------------------------------------------
\* the pieces of s between the occurrences of sep
RECURSIVE Split(_, _)
Split(s, sep) ==
  IF \A i \in 1..Len(s) : s[i] # sep THEN <<s>>
  ELSE LET i == CHOOSE k \in 1..Len(s) :
                  s[k] = sep /\ \A j \in 1..(k-1) : s[j] # sep
       IN  <<SubSeq(s, 1, i - 1)>> \o Split(SubSeq(s, i + 1, Len(s)), sep)

\* the decimal numeral s times 1000, truncated toward zero: the digits
\* before the point followed by the first three digits after it
ExactMs(s) ==
  LET dot   == RFind(s, ".")
      whole == IF dot = 0 THEN s ELSE SubSeq(s, 1, dot - 1)
      frac  == IF dot = 0 THEN <<>> ELSE SubSeq(s, dot + 1, Len(s))
      three == SubSeq(frac \o <<"0","0","0">>, 1, 3)
  IN  DigitsVal(whole \o three)

\* a worker whose rendering has produced the text it is about to write
Rendered(worker) == worker.pc \in {"t_open", "t_write"}

\* C11: the timestamp rendered for every frame is the frame's pts_time in
\* seconds times 1000, truncated toward zero to whole milliseconds
C11_TimestampTruncated ==
  \A w \in Workers :
    Rendered(wk[w]) =>
      LET lines == Split(wk[w].text, "\n") IN
      \A i \in 1..Len(wk[w].json.frames) :
        Split(lines[i], " ")[3] =
          IntToStr(ExactMs(wk[w].json.frames[i].pts_time))

\* ------------------------------------------------------------------------
\* Determinism of the sanitiser
\* ------------------------------------------------------------------------
\* C12: with the filesystem and the input list unchanged, a repeated call of
\* run(), on the same instance too, returns the list the call before it
\* returned
C12_RepeatedRunSameList ==
  [][(san_calls >= 1 /\ san_calls' = san_calls + 1) => san_ret' = san_ret]_vars

\* ------------------------------------------------------------------------
\* No valid input
\* ------------------------------------------------------------------------
\* the dispatch is past the test of the merged list and of the sanitised list
PastInputChecks == pc \notin {"process_args", "input_dir", "check_inputs"}

\* the merged list was empty, or the sanitiser returned an empty list
NoValidInput ==
  \/ input_filenames = <<>>
  \/ san_calls = 1 /\ san_ret = <<>>

\* C13: with the tool available, an empty merged list or an empty sanitised
\* list makes run() return exactly NO_VALID_FILE with no worker started, no
\* extraction and no output written; the sanitiser runs at most once per
\* dispatch, and not at all on an empty merged list
C13_NoValidInputShortCircuit ==
  /\ san_calls <= 1
  /\ input_filenames = <<>> => san_calls = 0
  /\ (tool_ok = "yes" /\ PastInputChecks /\ NoValidInput)
       => /\ pc = "returned"
          /\ ret = NO_VALID_FILE
          /\ wk = <<>>
          /\ out \in {NoFiles, OldOutput}

\* a dispatch whose only input is a directory named d.mp4: the sanitiser has
\* run and left nothing
C13_Witness ==
  /\ pc = "returned"
  /\ tool_ok = "yes"
  /\ input_filenames # <<>>
  /\ san_calls = 1
  /\ san_ret = <<>>
  /\ ret = NO_VALID_FILE

\* ------------------------------------------------------------------------
\* Creation of the output directory
\* ------------------------------------------------------------------------
\* C14: a worker that found the output directory absent and is about to
\* create it does not fail when the directory has been created meanwhile:
\* it goes on to render
C14_MkdirIdempotent ==
  [][\A w \in Workers :
       (wk[w].pc = "t_mkdir" /\ outdir /\ wk'[w].pc # "t_mkdir")
         => wk'[w].pc = "t_convert"]_vars

\* ------------------------------------------------------------------------
\* Order of the steps of a unit of work
\* ------------------------------------------------------------------------
\* the worker is in its Transform, or has left it
InTransform(worker) ==
  worker.pc \in {"t_isdir", "t_mkdir", "t_convert", "t_open", "t_write"}
TransformStarted(worker) == InTransform(worker) \/ worker.tr # "none"

\* the worker is in the branch that ORs its bit into the accumulator
Reporting(worker) == worker.pc \in {"lock", "read", "write"}

\* where each worker stands agrees with the order Extract, then Transform
ExtractBeforeTransform ==
  \A w \in Workers :
    /\ wk[w].ext = "none" <=> wk[w].pc = "extract"
    /\ TransformStarted(wk[w]) => wk[w].ext = "ok"
    /\ wk[w].ext \in {"empty", "raised"} => wk[w].tr = "none"
    /\ Reporting(wk[w]) =>
         \/ /\ wk[w].bit = FFPROBE_ERROR
            /\ wk[w].ext = "empty"
            /\ wk[w].tr = "none"
         \/ /\ wk[w].bit = TRANSFORM_ERROR
            /\ wk[w].ext = "ok"
            /\ wk[w].tr = "false"

\* a step changes the accumulator only as the one store of a reporting
\* worker, which then returns; a worker that has ended stays ended
OneBitPerWorker ==
  /\ return_value' # return_value =>
       \E w \in Workers :
         /\ wk[w].pc = "write"
         /\ wk'[w].pc = "done"
         /\ return_value' = BitOr(wk[w].tmp, wk[w].bit)
         /\ \A v \in Workers \ {w} : wk'[v] = wk[v]
  /\ \A w \in Workers : wk[w].pc \in {"done", "died"} => wk'[w] = wk[w]

\* C15: in each unit of work Transform starts only after an extraction that
\* returned a non-empty result, never after an empty one, and the unit ORs
\* at most one bit, FFPROBE_ERROR or TRANSFORM_ERROR, into the accumulator
C15_ExtractThenTransform ==
  []ExtractBeforeTransform /\ [][OneBitPerWorker]_vars

\* a worker about to store TRANSFORM_ERROR over the FFPROBE_ERROR of another
C15_Witness ==
  \E w \in Workers :
    /\ wk[w].pc = "write"
    /\ wk[w].bit = TRANSFORM_ERROR
    /\ wk[w].ext = "ok"
    /\ wk[w].tmp = FFPROBE_ERROR

\* ------------------------------------------------------------------------
\* Failure of the Transform
\* ------------------------------------------------------------------------
\* C16: after DataTransformer.run() has returned False, the output path
\* holds the file it held before the call, unchanged, or no file at all
C16_NoPartialFile ==
  \A w \in Workers :
    wk[w].tr = "false" =>
      \/ OutputOf(wk[w]) \notin DOMAIN out
      \/ out[OutputOf(wk[w])] = OldText

\* ------------------------------------------------------------------------
\* Shape of the rendered text
\* ------------------------------------------------------------------------
\* C17: the text rendered from a non-empty record set has exactly one line
\* per frame, in the order of the frames, each line being the number, the
\* type, the timestamp in milliseconds and the size of its frame separated
\* by single spaces; the lines are joined by single newlines, with no
\* trailing newline and no header
C17_OneLinePerFrame ==
  \A w \in Workers :
    Rendered(wk[w]) =>
      LET frames == wk[w].json.frames
          lines  == Split(wk[w].text, "\n")
      IN  /\ Len(lines) = Len(frames)
          /\ \A i \in 1..Len(frames) :
               Split(lines[i], " ") =
                 <<frames[i].coded_picture_number, frames[i].pict_type,
                   IntToStr(TimeMs(frames[i].pts_time)), frames[i].pkt_size>>

\* two different frames have been rendered
C17_Witness ==
  \E w \in Workers :
    /\ Rendered(wk[w])
    /\ wk[w].json.frames = <<LaterFrame, GoodFrame>>

\* ------------------------------------------------------------------------
\* Deduplication comes before the extension filter
\* ------------------------------------------------------------------------
\* the elements of a sequence
Elements(l) == {l[i] : i \in 1..Len(l)}

\* input i is a regular file and no regular file listed before it has its
\* base name or its canonical path: it claims both
FirstClaimant(inputs, f, i) ==
  /\ PathIsFile(f, inputs[i])
  /\ \A k \in 1..(i - 1) :
       PathIsFile(f, inputs[k]) =>
         /\ Basename(inputs[k]) # Basename(inputs[i])
         /\ Realpath(f, inputs[k]) # Realpath(f, inputs[i])

\* C18: a path without the .mp4 extension that is the first claimant of its
\* canonical path keeps the claim: neither it nor any listed path that
\* resolves to the same canonical file is in the sanitiser's output
C18_ClaimBeforeFilter ==
  san_calls = 1 =>
    \A i \in 1..Len(san.input_paths) :
      (~HasMp4Extension(san.input_paths[i])
         /\ FirstClaimant(san.input_paths, fs, i))
      => \A p \in Elements(san.input_paths) :
           (PathIsFile(fs, p)
              /\ Realpath(fs, p) = Realpath(fs, san.input_paths[i]))
           => p \notin Elements(san_ret)

\* a/x.txt listed before b/y.mp4, a symbolic link to it: neither is returned
C18_Witness ==
  /\ san_calls = 1
  /\ san.input_paths = <<PathAX, PathBY>>
  /\ fs[PathBY] = Link(PathAX)
  /\ san_ret = <<>>

\* ------------------------------------------------------------------------
\* Shape of the return code
\* ------------------------------------------------------------------------
HasBit(x, bit) == (x \div bit) % 2 = 1

\* the codes made of FFPROBE_ERROR and TRANSFORM_ERROR only
WorkerCodes ==
  {SUCCESS, FFPROBE_ERROR, TRANSFORM_ERROR, FFPROBE_ERROR + TRANSFORM_ERROR}

\* what run() returned is NO_VALID_FILE alone, FFPROBE_NOT_FOUND alone or a
\* code of the workers; the accumulator is always a code of the workers
ReturnCodeShape ==
  /\ return_value \in WorkerCodes
  /\ pc = "returned" =>
       /\ ret \in {NO_VALID_FILE, FFPROBE_NOT_FOUND} \cup WorkerCodes
       /\ ret \in {NO_VALID_FILE, FFPROBE_NOT_FOUND} =>
            return_value = SUCCESS

\* no step clears a bit of the accumulator
AccumulatorOnlyGains ==
  \A bit \in {NO_VALID_FILE, FFPROBE_NOT_FOUND, FFPROBE_ERROR,
              TRANSFORM_ERROR} :
    HasBit(return_value, bit) => HasBit(return_value', bit)

\* C19: run() returns exactly NO_VALID_FILE, exactly FFPROBE_NOT_FOUND, or
\* a combination of FFPROBE_ERROR and TRANSFORM_ERROR only; during the
\* dispatch the accumulator gains bits 4 and 8 only and never loses one
C19_ReturnCodeShape ==
  []ReturnCodeShape /\ [][AccumulatorOnlyGains]_vars

\* a dispatch that returned both worker bits
C19_Witness ==
  /\ pc = "returned"
  /\ ret = FFPROBE_ERROR + TRANSFORM_ERROR

====
